---- MODULE Spec2Model ----
(***************************************************************************)
(* Spotify listening-history database: the track-mapping and               *)
(* consolidated-track rebuilds of db_updates.py, as raw SQL in             *)
(* utils/db_utils.py (TRACK_MAPPING_QUERY, TRACKS_CONSOLIDATED_QUERY),     *)
(* over the catalog tables that process_batch fills.                       *)
(*                                                                         *)
(* Tables are sets of rows (records named by their SQL columns).  The raw  *)
(* SQL reads the relations tracks, albums, artists, track_artists and      *)
(* track_mapping and writes track_mapping_test and                         *)
(* tracks_consolidated_test; the variables carry exactly those names.      *)
(* Audio-feature columns are copied through untouched by both queries and  *)
(* take part in no join, partition or ordering, so rows leave them out.    *)
(*                                                                         *)
(* Further specifications over the same variables:                         *)
(*   SpecDuplicateArtists  process_duplicate_artists as db_updates.main    *)
(*                         calls it (db_utils.py lines 509-573);           *)
(*   SpecRenameLoop        its renaming plan and update loop (lines        *)
(*                         533-573) entered on their own;                  *)
(*   SpecUpdatesRun        the transaction of db_updates.main lines 48-54; *)
(*   SpecBatch             spotify_api_batch_processing.main with the      *)
(*                         retry wrapper of utils/spotify_utils.py;        *)
(*   SpecRetryWrapper      calls through the retry wrapper under any       *)
(*                         retry configuration.                            *)
(* Each specification keeps the variables of the others at their idle      *)
(* values.                                                                 *)
(***************************************************************************)
EXTENDS Integers, Sequences, FiniteSets, TLC

\* pc is the position inside db_updates.main ("mapped": between the two
\* statements); rebuilt records that both statements have completed since the
\* last catalog load.
VARIABLES tracks, albums, artists, track_artists,
          track_mapping_test, track_mapping, tracks_consolidated_test,
          pc, rebuilt

\* process_duplicate_artists: the tables it works on as its connection sees
\* them (artists_test, music_listening_history_test), what the database holds
\* committed, the position inside the function (dpc), its locals
\* (duplicate_artist_names, dupe_artist_df, the row the update loop is at) and
\* the Artist table as it was when the function was called, and the number of
\* calls made so far.
VARIABLES artists_test, music_listening_history_test, committed,
          dpc, duplicate_artist_names, dupe_artist_df, row_index,
          artists_at_call, calls

dedupeLocals == <<music_listening_history_test, committed,
                  dpc, duplicate_artist_names, dupe_artist_df, row_index,
                  artists_at_call, calls>>

dedupeVars == <<artists_test, dedupeLocals>>

\* The transaction of db_updates.main around the two rebuilds: the position
\* inside it (upc), what the database holds committed of the two rebuilt
\* tables, and what it held when the run began.
VARIABLES upc, committed_tables, tables_before_run

runVars == <<upc, committed_tables, tables_before_run>>

catalogVars == <<tracks, albums, artists, track_artists, track_mapping_test,
                 track_mapping, tracks_consolidated_test, pc, rebuilt>>

\* spotify_api_batch_processing.main: the tables process_batch writes
\* (tracks_test, track_artists_test, albums_test, and artists_test above), keyed
\* by the position of the track URI in track_df; main's start_index and the
\* position inside the run (bpc); the number of runs started; how the last run
\* ended (error: the exception that ended the loop, main_raised: the exception
\* main let through to its caller); the flags of the batch at hand; the start
\* indices of the batches this run has handled; whether the run was started at
\* the index the failed run before it stopped at; the last call made through
\* the retry wrapper; the URIs the catalog has no data for; and the retry
\* configuration the wrapper reads at every call.
VARIABLES tracks_test, track_artists_test, albums_test,
          start_index, bpc, run, error, main_raised,
          batch_has_new_tracks, batch_has_new_track_artists,
          batches, resumed, last_call, none_uris, RETRY_CONFIG

batchVars == <<tracks_test, track_artists_test, albums_test,
               start_index, bpc, run, error, main_raised,
               batch_has_new_tracks, batch_has_new_track_artists,
               batches, resumed, last_call, none_uris, RETRY_CONFIG>>

vars == <<catalogVars, dedupeVars, runVars, batchVars>>

(***************************************************************************)
(* Bounds and input domains                                                *)
(***************************************************************************)
MaxTracks == 2

TrackIds == 1..MaxTracks

ArtistIds == {1, 2, 3}

TrackNames == {"X", "Y"}

\* 2999 | 3000 straddle a bucket boundary; 3000 and 5999 share a bucket.
Durations == {2999, 3000, 5999}

Popularities == {0, 1}

\* track["artists"] as the catalog returns it: the first entry is the primary artist.
ArtistLists == {<<1>>, <<1, 2>>, <<2, 1>>, <<3, 1>>, <<1, 2, 3>>}

\* Catalog albums 1..5 carry a parseable release date, album 6 does not.
AlbumIds == 1..6

AlbumCatalog ==
  [a \in AlbumIds |->
     CASE a = 1 -> [album_type |-> "album",       release_date |-> 1, parseable |-> TRUE]
       [] a = 2 -> [album_type |-> "album",       release_date |-> 2, parseable |-> TRUE]
       [] a = 3 -> [album_type |-> "single",      release_date |-> 1, parseable |-> TRUE]
       [] a = 4 -> [album_type |-> "compilation", release_date |-> 1, parseable |-> TRUE]
       [] a = 5 -> [album_type |-> "appears_on",  release_date |-> 1, parseable |-> TRUE]
       [] OTHER -> [album_type |-> "album",       release_date |-> 0, parseable |-> FALSE]]

\* Display names the catalog returns: artists 1 and 3 share a name.
ArtistNameOf == [a \in ArtistIds |-> IF a = 2 THEN "Al" ELSE "Bob"]

\* The track objects of a batch vary one aspect at a time around BaseTrack: the
\* partition key, the ORDER BY key, or the artist list.
BaseTrack ==
  [name |-> "X", artists |-> <<1>>, album |-> 1, duration_ms |-> 3000, popularity |-> 0]

\* Track objects that vary the partition key of the mapping query.
GroupInputs ==
  {[BaseTrack EXCEPT !.name = n, !.artists = <<a>>, !.duration_ms = d] :
     n \in TrackNames, a \in {1, 2}, d \in Durations}

\* Track objects that vary the ORDER BY key of the mapping query.
OrderInputs ==
  {[BaseTrack EXCEPT !.album = al, !.popularity = p] : al \in AlbumIds, p \in Popularities}

\* Track objects that vary the contributing artists.
ArtistInputs == {[BaseTrack EXCEPT !.artists = s] : s \in ArtistLists}

TrackInputs == GroupInputs \cup OrderInputs \cup ArtistInputs

Uri(id) == <<"spotify:track", id>>

(***************************************************************************)
(* Catalog load: one successful process_batch over one new track           *)
(***************************************************************************)
TrackRow(id, track) ==
  [spotify_track_uri  |-> Uri(id),
   spotify_track_id   |-> id,
   spotify_artist_id  |-> track.artists[1],
   spotify_album_id   |-> track.album,
   track_name         |-> track.name,
   duration_ms        |-> track.duration_ms,
   track_popularity   |-> track.popularity]

TrackArtistRows(id, track) ==
  {[spotify_track_uri |-> Uri(id), spotify_track_id |-> id,
    spotify_artist_id |-> track.artists[i]] : i \in 1..Len(track.artists)}

\* insert_album: the row is written unless parsing the release date raises.
AlbumRows(al) ==
  IF AlbumCatalog[al].parseable
    THEN {[spotify_album_id |-> al,
           album_type       |-> AlbumCatalog[al].album_type,
           release_date     |-> AlbumCatalog[al].release_date]}
    ELSE {}

\* handle_album: insert only when no row with this album id is stored.
HandleAlbum(tbl, al) ==
  IF \E a \in tbl : a.spotify_album_id = al THEN tbl ELSE tbl \cup AlbumRows(al)

\* handle_artists: insert every artist of the track that is not stored yet.
HandleArtists(tbl, track) ==
  tbl \cup {[spotify_artist_id |-> track.artists[i],
             artist_name       |-> ArtistNameOf[track.artists[i]]] :
              i \in {j \in 1..Len(track.artists) :
                       ~ \E a \in tbl : a.spotify_artist_id = track.artists[j]}}

\* process_batch on a track not stored yet, every catalog call succeeding:
\* handle_new_track_artists, then handle_new_tracks.  The scripts run one at a
\* time, so no batch is loaded between the two statements of db_updates.
ProcessBatch ==
  /\ pc = "idle"
  /\ Cardinality(tracks) < MaxTracks
  /\ \E track \in TrackInputs :
       LET id == Cardinality(tracks) + 1 IN
         /\ track_artists' = track_artists \cup TrackArtistRows(id, track)
         /\ tracks' = tracks \cup {TrackRow(id, track)}
         /\ albums' = HandleAlbum(albums, track.album)
         /\ artists' = HandleArtists(artists, track)
  /\ rebuilt' = FALSE
  /\ UNCHANGED <<track_mapping_test, track_mapping, tracks_consolidated_test, pc>>

(***************************************************************************)
(* TRACK_MAPPING_QUERY                                                     *)
(***************************************************************************)
BucketWidth == 3000

MatchWindow == 3000

Abs(n) == IF n < 0 THEN 0 - n ELSE n

\* t1.duration_ms - t1.duration_ms % 3000 AS duration_ms_group
DurationGroup(d) == d - (d % BucketWidth)

\* Subquery t: tracks t1 JOIN tracks t2 ... GROUP BY every column of t1.  A row
\* of t1 survives when some t2 joins it; min_duration_ms is computed but read
\* nowhere, so the rows of t are the surviving rows of tracks.
SubqueryT(trk) ==
  {t1 \in trk :
     \E t2 \in trk :
       /\ t1.track_name = t2.track_name
       /\ t1.spotify_artist_id = t2.spotify_artist_id
       /\ Abs(t1.duration_ms - t2.duration_ms) <= MatchWindow}

\* Mutant: LEFT JOIN albums, a track without an album row is kept with a null album.
JoinAlbums_Left(trk, alb) ==
  {r \in [t : SubqueryT(trk),
          a : alb \cup {[spotify_album_id |-> 0, album_type |-> "null", release_date |-> 0]}] :
     \/ r.t.spotify_album_id = r.a.spotify_album_id
     \/ /\ r.a.spotify_album_id = 0
        /\ ~ \E a \in alb : a.spotify_album_id = r.t.spotify_album_id}

\* t JOIN albums a ON t.spotify_album_id = a.spotify_album_id
JoinAlbums(trk, alb) ==
  {r \in [t : SubqueryT(trk), a : alb] : r.t.spotify_album_id = r.a.spotify_album_id}

\* Mutant: the partition uses the raw duration instead of its bucket.
PartitionKey_RawDuration(t) == <<t.spotify_artist_id, t.track_name, t.duration_ms>>

\* PARTITION BY t.spotify_artist_id, t.track_name, t.duration_ms_group
PartitionKey(t) == <<t.spotify_artist_id, t.track_name, DurationGroup(t.duration_ms)>>

\* CASE WHEN a.album_type = 'album' THEN 1 ... ELSE 4 END
AlbumTypeRank(album_type) ==
  CASE album_type = "album"       -> 1
    [] album_type = "single"      -> 2
    [] album_type = "compilation" -> 3
    [] OTHER                      -> 4

\* Mutant: popularity ascending (DESC forgotten).
OrderKey_PopularityAsc(r) ==
  <<AlbumTypeRank(r.a.album_type), r.t.track_popularity,
    r.a.release_date, r.t.spotify_track_id>>

\* Mutant: no final tie-break on the track id.
OrderKey_NoTrackId(r) ==
  <<AlbumTypeRank(r.a.album_type), 0 - r.t.track_popularity, r.a.release_date>>

\* ORDER BY rank, t.track_popularity DESC, a.release_date, t.spotify_track_id
OrderKey(r) ==
  <<AlbumTypeRank(r.a.album_type), 0 - r.t.track_popularity,
    r.a.release_date, r.t.spotify_track_id>>

LexLess(k1, k2) ==
  \E i \in 1..Len(k1) :
    /\ k1[i] < k2[i]
    /\ \A j \in 1..(i - 1) : k1[j] = k2[j]

\* The rows ROW_NUMBER() may number 1: those no row of their partition sorts
\* strictly before.  Rows that tie on the whole ORDER BY list may be numbered
\* in either order.
Rank1Candidates(rows) ==
  {r \in rows :
     \A s \in rows :
       PartitionKey(s.t) = PartitionKey(r.t) => ~ LexLess(OrderKey(s), OrderKey(r))}

\* One way of numbering: exactly one rnk = 1 row in every partition.
Rank1Choices(rows) ==
  LET keys == {PartitionKey(r.t) : r \in rows} IN
    {f \in [keys -> rows] :
       \A k \in keys : f[k] \in Rank1Candidates(rows) /\ PartitionKey(f[k].t) = k}

\* Mutant: new_track_uri taken from y instead of x.
LeftJoinTracks_NewFromY(x, trk) ==
  {[old_track_uri |-> y.spotify_track_uri, new_track_uri |-> y.spotify_track_uri] :
     y \in {y \in trk :
              /\ x.spotify_artist_id = y.spotify_artist_id
              /\ x.track_name = y.track_name
              /\ DurationGroup(x.duration_ms) = DurationGroup(y.duration_ms)}}

\* Mutant: y is joined to albums as well, so only album-resolved tracks become keys.
LeftJoinTracks_AlbumOnly(x, trk) ==
  {[old_track_uri |-> y.spotify_track_uri, new_track_uri |-> x.spotify_track_uri] :
     y \in {y \in trk :
              /\ x.spotify_artist_id = y.spotify_artist_id
              /\ x.track_name = y.track_name
              /\ DurationGroup(x.duration_ms) = DurationGroup(y.duration_ms)
              /\ \E a \in albums : a.spotify_album_id = y.spotify_album_id}}

\* Mutant: the join skips x itself, so only the superseded tracks become keys.
LeftJoinTracks_NotSelf(x, trk) ==
  LET ys == {y \in trk :
               /\ x.spotify_artist_id = y.spotify_artist_id
               /\ x.track_name = y.track_name
               /\ DurationGroup(x.duration_ms) = DurationGroup(y.duration_ms)
               /\ x.spotify_track_id # y.spotify_track_id}
  IN IF ys = {}
       THEN {[old_track_uri |-> x.spotify_track_uri, new_track_uri |-> x.spotify_track_uri]}
       ELSE {[old_track_uri |-> y.spotify_track_uri,
              new_track_uri |-> x.spotify_track_uri] : y \in ys}

\* Mutant: the join takes every y within 3000 ms of x instead of x's bucket.
LeftJoinTracks_Within(x, trk) ==
  {[old_track_uri |-> y.spotify_track_uri, new_track_uri |-> x.spotify_track_uri] :
     y \in {y \in trk :
              /\ x.spotify_artist_id = y.spotify_artist_id
              /\ x.track_name = y.track_name
              /\ Abs(x.duration_ms - y.duration_ms) <= 3000}}

\* Mutant: the join matches on name and duration bucket only, not on the artist.
LeftJoinTracks_NoArtist(x, trk) ==
  {[old_track_uri |-> y.spotify_track_uri, new_track_uri |-> x.spotify_track_uri] :
     y \in {y \in trk :
              /\ x.track_name = y.track_name
              /\ DurationGroup(x.duration_ms) = DurationGroup(y.duration_ms)}}

\* x LEFT OUTER JOIN tracks y ON artist, name and x.duration_ms_group =
\* y.duration_ms - y.duration_ms % 3000, with COALESCE(y.uri, x.uri).
LeftJoinTracks(x, trk) ==
  LET ys == {y \in trk :
               /\ x.spotify_artist_id = y.spotify_artist_id
               /\ x.track_name = y.track_name
               /\ DurationGroup(x.duration_ms) = y.duration_ms - (y.duration_ms % BucketWidth)}
  IN IF ys = {}
       THEN {[old_track_uri |-> x.spotify_track_uri, new_track_uri |-> x.spotify_track_uri]}
       ELSE {[old_track_uri |-> y.spotify_track_uri,
              new_track_uri |-> x.spotify_track_uri] : y \in ys}

\* Every row set the SELECT of TRACK_MAPPING_QUERY may return.
TrackMappingSelect(trk, alb) ==
  LET rows == JoinAlbums(trk, alb) IN
    {UNION {LeftJoinTracks(f[k].t, trk) : k \in DOMAIN f} : f \in Rank1Choices(rows)}

Truncate(tbl) == {}

InsertInto(tbl, rows) == tbl \cup rows

\* old_track_uri is the primary key of track_mapping_test.
MappingKeyUnique(tbl) ==
  \A r, s \in tbl : r.old_track_uri = s.old_track_uri => r = s

TrackMappingRebuild ==
  /\ pc = "idle"
  /\ \E rows \in TrackMappingSelect(tracks, albums) :
       /\ MappingKeyUnique(InsertInto(Truncate(track_mapping_test), rows))
       /\ track_mapping_test' = InsertInto(Truncate(track_mapping_test), rows)
  /\ pc' = "mapped"
  /\ UNCHANGED <<tracks, albums, artists, track_artists, track_mapping,
                 tracks_consolidated_test, rebuilt>>

(***************************************************************************)
(* TRACKS_CONSOLIDATED_QUERY                                               *)
(***************************************************************************)
Delimiter == ", "

\* Mutant: the subquery joins tracks t with no condition on the track id.
JoinTrackArtists_NoTrackJoin(tid, trk, ta, art) ==
  {r \in [ta : ta, a : art, t : trk] :
     /\ r.ta.spotify_track_id = tid
     /\ r.ta.spotify_artist_id = r.a.spotify_artist_id}

\* Subquery an, before aggregation: track_artists ta JOIN artists a JOIN tracks t,
\* the rows of one ta.spotify_track_id group.
JoinTrackArtists(tid, trk, ta, art) ==
  {r \in [ta : ta, a : art, t : trk] :
     /\ r.ta.spotify_track_id = tid
     /\ r.ta.spotify_artist_id = r.a.spotify_artist_id
     /\ r.ta.spotify_track_id = r.t.spotify_track_id}

\* Mutant: the CASE branches swapped, the primary artist sorts last.
AggOrderKey_Reversed(r) == IF r.ta.spotify_artist_id = r.t.spotify_artist_id THEN 2 ELSE 1

\* ORDER BY CASE WHEN ta.spotify_artist_id = t.spotify_artist_id THEN 1 ELSE 2 END
AggOrderKey(r) == IF r.ta.spotify_artist_id = r.t.spotify_artist_id THEN 1 ELSE 2

\* Every order in which STRING_AGG may take the rows of a group: the ORDER BY
\* key never decreases, rows with equal keys come in any order.
AggOrders(rows) ==
  LET n == Cardinality(rows) IN
    {s \in [1..n -> rows] :
       /\ \A i, j \in 1..n : i # j => s[i] # s[j]
       /\ \A i, j \in 1..n : i < j => AggOrderKey(s[i]) <= AggOrderKey(s[j])}

\* STRING_AGG(a.artist_name, ', '): the names with the delimiter between them,
\* as a sequence of tokens.
StringAgg(s) ==
  [i \in 1..(2 * Len(s) - 1) |->
     IF i % 2 = 1 THEN s[(i + 1) \div 2].a.artist_name ELSE Delimiter]

ArtistNames(tid, trk, ta, art) ==
  {StringAgg(s) : s \in AggOrders(JoinTrackArtists(tid, trk, ta, art))}

ConsolidatedRow(t, names) ==
  [spotify_track_uri  |-> t.spotify_track_uri,
   spotify_track_id   |-> t.spotify_track_id,
   spotify_artist_id  |-> t.spotify_artist_id,
   spotify_album_id   |-> t.spotify_album_id,
   track_name         |-> t.track_name,
   all_artist_names   |-> names,
   duration_ms        |-> t.duration_ms,
   track_popularity   |-> t.track_popularity]

\* Every row set the SELECT DISTINCT of TRACKS_CONSOLIDATED_QUERY may return:
\* tracks t JOIN track_mapping tm ON t.uri = tm.new_track_uri JOIN an ON track id.
TracksConsolidatedSelect(trk, tm, ta, art) ==
  LET joined == {t \in trk :
                   /\ \E m \in tm : t.spotify_track_uri = m.new_track_uri
                   /\ JoinTrackArtists(t.spotify_track_id, trk, ta, art) # {}}
      ids    == {t.spotify_track_id : t \in joined}
      names  == UNION {ArtistNames(tid, trk, ta, art) : tid \in ids}
  IN {{ConsolidatedRow(t, an[t.spotify_track_id]) : t \in joined} :
        an \in {f \in [ids -> names] :
                  \A tid \in ids : f[tid] \in ArtistNames(tid, trk, ta, art)}}

\* spotify_track_id is the primary key of tracks_consolidated_test.
ConsolidatedKeyUnique(tbl) ==
  \A r, s \in tbl : r.spotify_track_id = s.spotify_track_id => r = s

TracksConsolidatedRebuild ==
  /\ pc = "mapped"
  /\ \E rows \in TracksConsolidatedSelect(tracks, track_mapping, track_artists, artists) :
       /\ ConsolidatedKeyUnique(InsertInto(Truncate(tracks_consolidated_test), rows))
       /\ tracks_consolidated_test' = InsertInto(Truncate(tracks_consolidated_test), rows)
  /\ pc' = "idle"
  /\ rebuilt' = TRUE
  /\ UNCHANGED <<tracks, albums, artists, track_artists, track_mapping_test, track_mapping>>

(***************************************************************************)
(* process_duplicate_artists                                               *)
(***************************************************************************)
\* Display names in the catalog; "Bob (2)" is a name an artist carries of its
\* own, and "Bobby" a spelling found only in the listening-history export.
ArtistDisplayNames == {"Al", "Bob", "Bob (2)"}

ExportSpellings == {"Bobby"}

FollowerCounts == {10, 20, 30}

\* A column left NULL.
NULL == 0

\* artists_test: one row per spotify_artist_id (its primary key).
ArtistTables ==
  { {[spotify_artist_id |-> a, artist_name |-> f[a].artist_name,
      followers |-> f[a].followers] : a \in ArtistIds}
    : f \in [ArtistIds -> [artist_name : ArtistDisplayNames, followers : FollowerCounts]] }

\* music_listening_history_test after update_music_listening_history: one
\* stream per artist, carrying the artist's ID and a display name (the catalog
\* name, or for the first artist the export's own spelling), and one stream no
\* track of the catalog matches, whose artist ID stays NULL.
ListeningHistories(tbl) ==
  { {[music_stream_id |-> r.spotify_artist_id,
      spotify_artist_id |-> r.spotify_artist_id,
      artist_name |-> IF r.spotify_artist_id = 1 THEN n ELSE r.artist_name] : r \in tbl}
      \cup {[music_stream_id |-> 0, spotify_artist_id |-> NULL, artist_name |-> "Bob"]}
    : n \in {r.artist_name : r \in {x \in tbl : x.spotify_artist_id = 1}} \cup ExportSpellings }

\* SELECT artist_name FROM artists GROUP BY artist_name HAVING count(*) > 1
DupeQueryResult(tbl) ==
  {n \in {r.artist_name : r \in tbl} :
     Cardinality({r \in tbl : r.artist_name = n}) > 1}

\* conn.commit(): what the connection sees becomes the committed content.
Commit(art, mlh) ==
  [artists_test |-> art, music_listening_history_test |-> mlh]

\* The function is called on a connection with nothing uncommitted.
DedupeCalled(at) ==
  /\ artists_test \in ArtistTables
  /\ music_listening_history_test \in ListeningHistories(artists_test)
  /\ committed = Commit(artists_test, music_listening_history_test)
  /\ dpc = at
  /\ dupe_artist_df = <<>>
  /\ row_index = 0
  /\ artists_at_call = artists_test
  /\ calls = 1

\* Lines 526-530: the names carried by more than one artist.
DupeQuery ==
  /\ dpc = "called"
  /\ duplicate_artist_names' = DupeQueryResult(artists_test)
  /\ dpc' = "queried"
  /\ UNCHANGED <<artists_test, music_listening_history_test, committed,
                 dupe_artist_df, row_index, artists_at_call, calls>>

\* An exception leaves the function and db_updates.main's "with" block: the
\* connection is closed and what it had not committed is rolled back.
Rollback ==
  /\ artists_test' = committed.artists_test
  /\ music_listening_history_test' = committed.music_listening_history_test

\* Line 531: logger.error(f"... {album_name}: {e}") names two variables the
\* function does not have, so evaluating the f-string raises NameError.
StrayLoggerError ==
  /\ dpc = "queried"
  /\ dpc' = "raised"
  /\ Rollback
  /\ UNCHANGED <<committed, duplicate_artist_names, dupe_artist_df, row_index,
                 artists_at_call, calls>>

\* Lines 534-541: the rows carrying a duplicated name, sorted by followers in
\* descending order.  Rows with equal followers come out in either order.
SortedByFollowers(rows) ==
  {df \in [1..Cardinality(rows) -> rows] :
     /\ \A i, j \in DOMAIN df : i # j => df[i] # df[j]
     /\ \A i, j \in DOMAIN df : i < j => df[i].followers >= df[j].followers}

\* Lines 543-556: artist_counts[artist_name] once row i has been visited.
ArtistCount(df, i) ==
  Cardinality({j \in 1..i : df[j].artist_name = df[i].artist_name})

\* f'{artist_name} ({artist_counts[artist_name]})'
SuffixedName(artist_name, count) ==
  artist_name \o " (" \o ToString(count) \o ")"

NewArtistName(df, i) ==
  IF ArtistCount(df, i) > 1
    THEN SuffixedName(df[i].artist_name, ArtistCount(df, i))
    ELSE df[i].artist_name

\* Lines 533-559, entered past line 531: dupe_artist_df with its artist_name
\* column replaced by the new names.
RenamePlan ==
  /\ dpc = "select"
  /\ \E df \in SortedByFollowers({r \in artists_test :
                                    r.artist_name \in duplicate_artist_names}) :
       dupe_artist_df' = [i \in DOMAIN df |->
                            [df[i] EXCEPT !.artist_name = NewArtistName(df, i)]]
  /\ row_index' = 1
  /\ dpc' = "loop"
  /\ UNCHANGED <<artists_test, music_listening_history_test, committed,
                 duplicate_artist_names, artists_at_call, calls>>

\* Mutant: the UPDATE has no WHERE clause.
UpdateArtistName_NoWhere(tbl, id, name) ==
  {[r EXCEPT !.artist_name = name] : r \in tbl}

\* UPDATE tbl SET artist_name = :name WHERE spotify_artist_id = :id
UpdateArtistName(tbl, id, name) ==
  {IF r.spotify_artist_id = id THEN [r EXCEPT !.artist_name = name] ELSE r : r \in tbl}

\* Lines 562-573, one iteration: both updates, then conn.commit().
UpdateRow ==
  /\ dpc = "loop"
  /\ row_index <= Len(dupe_artist_df)
  /\ LET row == dupe_artist_df[row_index] IN
       /\ music_listening_history_test' =
            UpdateArtistName(music_listening_history_test,
                             row.spotify_artist_id, row.artist_name)
       /\ artists_test' =
            UpdateArtistName(artists_test, row.spotify_artist_id, row.artist_name)
  /\ committed' = Commit(artists_test', music_listening_history_test')
  /\ row_index' = row_index + 1
  /\ UNCHANGED <<dpc, duplicate_artist_names, dupe_artist_df, artists_at_call, calls>>

\* The loop is exhausted and the function returns.
ReturnFromLoop ==
  /\ dpc = "loop"
  /\ row_index > Len(dupe_artist_df)
  /\ dpc' = "returned"
  /\ UNCHANGED <<artists_test, music_listening_history_test, committed,
                 duplicate_artist_names, dupe_artist_df, row_index, artists_at_call, calls>>

\* Lines 570-571: a conn.execute of the iteration raises (the database refuses
\* the statement or the connection is lost).
UpdateRaises ==
  /\ dpc = "loop"
  /\ row_index <= Len(dupe_artist_df)
  /\ dpc' = "raised"
  /\ Rollback
  /\ UNCHANGED <<committed, duplicate_artist_names, dupe_artist_df, row_index,
                 artists_at_call, calls>>

\* How many times in a row the function is run.
MaxCalls == 2

\* The function is run again right after it has returned, with no data loaded
\* in between: the tables are as the call before left them.
CallAgain ==
  /\ dpc = "returned"
  /\ calls < MaxCalls
  /\ calls' = calls + 1
  /\ dpc' = "select"
  /\ duplicate_artist_names' = DupeQueryResult(artists_test)
  /\ dupe_artist_df' = <<>>
  /\ row_index' = 0
  /\ artists_at_call' = artists_test
  /\ UNCHANGED <<artists_test, music_listening_history_test, committed>>

\* No call of process_duplicate_artists is looked at.
DedupeIdle ==
  /\ artists_test = {}
  /\ music_listening_history_test = {}
  /\ committed = Commit({}, {})
  /\ dpc = "idle"
  /\ duplicate_artist_names = {}
  /\ dupe_artist_df = <<>>
  /\ row_index = 0
  /\ artists_at_call = {}
  /\ calls = 0

(***************************************************************************)
(* The rebuild transaction of db_updates.main (lines 48-54)                *)
(***************************************************************************)
\* The two tables the rebuilds write.
RebuiltTables(tm, tc) ==
  [track_mapping_test |-> tm, tracks_consolidated_test |-> tc]

\* Mutant: every statement is committed as it is executed.
CommittedAfterExecute_Autocommit(stored, seen) == seen

\* conn.execute without conn.commit: the statement, its TRUNCATE included,
\* stays inside the open transaction and the committed content is untouched.
CommittedAfterExecute(stored, seen) == stored

\* No run of db_updates is looked at.
RunIdle ==
  /\ upc = "closed"
  /\ committed_tables = RebuiltTables({}, {})
  /\ tables_before_run = RebuiltTables({}, {})

\* Line 48: conn.execute(text(TRACK_MAPPING_QUERY)), first statement of the
\* transaction.
ExecTrackMapping ==
  /\ upc \in {"closed", "failed"}
  /\ TrackMappingRebuild
  /\ tables_before_run' = committed_tables
  /\ committed_tables' =
       CommittedAfterExecute(committed_tables,
                             RebuiltTables(track_mapping_test', tracks_consolidated_test'))
  /\ upc' = "line50"

\* Line 50: conn.execute(text(TRACKS_CONSOLIDATED_QUERY)).
ExecTracksConsolidated ==
  /\ upc = "line50"
  /\ TracksConsolidatedRebuild
  /\ committed_tables' =
       CommittedAfterExecute(committed_tables,
                             RebuiltTables(track_mapping_test', tracks_consolidated_test'))
  /\ upc' = "line52"
  /\ UNCHANGED tables_before_run

\* Line 52: conn.execute(text(GENRES_UPDATE_QUERY)), which writes the genres
\* field of the artists table and neither rebuilt table.
ExecGenresUpdate ==
  /\ upc = "line52"
  /\ upc' = "line54"
  /\ UNCHANGED <<catalogVars, committed_tables, tables_before_run>>

\* Line 54: conn.commit().
CommitRun ==
  /\ upc = "line54"
  /\ committed_tables' = RebuiltTables(track_mapping_test, tracks_consolidated_test)
  /\ upc' = "closed"
  /\ UNCHANGED <<catalogVars, tables_before_run>>

\* The statement or commit the run is about to execute raises: the exception
\* leaves the "with" block, the connection is closed and its transaction
\* rolled back, so the tables read what was committed.
RunFails ==
  /\ upc \in {"line50", "line52", "line54"}
  /\ track_mapping_test' = committed_tables.track_mapping_test
  /\ tracks_consolidated_test' = committed_tables.tracks_consolidated_test
  /\ pc' = "idle"
  /\ rebuilt' = FALSE
  /\ upc' = "failed"
  /\ UNCHANGED <<tracks, albums, artists, track_artists, track_mapping,
                 committed_tables, tables_before_run>>

\* A batch is loaded while no run of db_updates is in progress.
LoadBetweenRuns ==
  /\ upc \in {"closed", "failed"}
  /\ ProcessBatch
  /\ UNCHANGED runVars

(***************************************************************************)
(* retry_operation and the wrapped catalog calls (utils/spotify_utils.py)  *)
(***************************************************************************)
\* RETRY_CONFIG
max_retries == 3

delay == 10

\* Pause after each successful API call.
sleep_seconds == 5

\* How many of its first invocations the catalog fails a call on.
FailureCounts == 0..(max_retries + 1)

\* What the wrapper and the wrapped function do, in order.
ApiCall == [kind |-> "call", seconds |-> 0]

Wait(seconds) == [kind |-> "wait", seconds |-> seconds]

\* fetch_*: the API call raises, or returns and the function pauses.
Invoke(failures, invocation) ==
  IF invocation <= failures THEN "error" ELSE "ok"

\* Mutant: the limit test lets one more failure through.
RetriesExhausted_OneMore(attempt, retries) == attempt > retries

\* if attempt >= max_retries
RetriesExhausted(attempt, retries) == attempt >= retries

\* wrapper's while loop: every failed invocation adds one to attempt, so the
\* next invocation is number attempt + 1.
RECURSIVE RetryLoop(_, _, _, _)
RetryLoop(retries, failures, attempt, events) ==
  IF attempt < retries
    THEN IF Invoke(failures, attempt + 1) = "ok"
           THEN [result |-> "returned",
                 events |-> events \o <<ApiCall, Wait(sleep_seconds)>>]
           ELSE IF RetriesExhausted(attempt + 1, retries)
                  THEN [result |-> "MaxRetriesExceededException",
                        events |-> Append(events, ApiCall)]
                  ELSE RetryLoop(retries, failures, attempt + 1,
                                 events \o <<ApiCall, Wait(delay)>>)
    ELSE [result |-> "None", events |-> events]

\* One call of a wrapped function, as the last_call variable records it.
WrappedCall(func, failures) ==
  LET r == RetryLoop(RETRY_CONFIG.max_retries, failures, 0, <<>>) IN
    [func |-> func, failures |-> failures, result |-> r.result, events |-> r.events]

NoCall == [func |-> "none", failures |-> 0, result |-> "None", events |-> <<>>]

\* RETRY_CONFIG as the repository sets it.
RepositoryRetryConfig == [max_retries |-> max_retries, delay |-> delay]

(***************************************************************************)
(* spotify_api_batch_processing.py                                         *)
(***************************************************************************)
batch_size == 50

\* len(track_df): the unique track URIs of the listening history, the URI at
\* position i being written i.
TrackCount == 120

MaxRuns == 2

\* Start indices the operator enters of their own accord.
StartIndices == {0, 25}

\* The sets of URIs the catalog may have no data for.
NoneUriSets == {{}, {60}}

\* get_batch_track_uris
BatchTrackUris(start) ==
  LET end_index == IF start + batch_size < TrackCount
                     THEN start + batch_size ELSE TrackCount
  IN  {i \in 0..(TrackCount - 1) : start <= i /\ i < end_index}

\* The catalog's track object for a URI: its album and its one artist.
AlbumOfUri(u) == 1 + (u \div 40)

ArtistOfUri(u) == 1 + ((u \div 40) % 3)

\* insert_artist: the row stored for an artist the catalog returned.
ArtistRow(a) ==
  [spotify_artist_id |-> a, artist_name |-> ArtistNameOf[a], followers |-> 10 * a]

\* insert_track_artist
TrackArtistRow(u) ==
  [spotify_track_uri |-> u, spotify_track_id |-> u, spotify_artist_id |-> ArtistOfUri(u)]

\* check_new_tracks_and_artists
HasNewTracks(uris) == \E u \in uris : u \notin tracks_test

HasNewTrackArtists(uris) ==
  \E u \in uris : ~ \E r \in track_artists_test : r.spotify_track_uri = u

\* The script is not running and has not run.
BatchIdle ==
  /\ tracks_test = {}
  /\ track_artists_test = {}
  /\ albums_test = {}
  /\ start_index = 0
  /\ bpc = "stopped"
  /\ run = 0
  /\ error = "none"
  /\ main_raised = "none"
  /\ batch_has_new_tracks = FALSE
  /\ batch_has_new_track_artists = FALSE
  /\ batches = <<>>
  /\ resumed = FALSE
  /\ last_call = NoCall
  /\ none_uris = {}
  /\ RETRY_CONFIG = RepositoryRetryConfig

\* main, lines 285-296: the operator enters a start index of their own, or
\* the one the run before stopped at with an error.
StartRun ==
  /\ bpc = "stopped"
  /\ run < MaxRuns
  /\ \E s \in StartIndices \cup {i \in {start_index} : error # "none"} :
       /\ start_index' = s
       /\ resumed' = (error # "none" /\ s = start_index)
  /\ run' = run + 1
  /\ bpc' = "loop"
  /\ error' = "none"
  /\ main_raised' = "none"
  /\ batch_has_new_tracks' = FALSE
  /\ batch_has_new_track_artists' = FALSE
  /\ batches' = <<>>
  /\ last_call' = NoCall
  /\ UNCHANGED <<tracks_test, track_artists_test, albums_test, artists_test, none_uris>>

\* main, line 319, once process_batch has returned.
BatchDone ==
  /\ start_index' = start_index + batch_size
  /\ batches' = Append(batches, start_index)
  /\ bpc' = "loop"

\* main, lines 321-327: MaxRetriesExceededException is logged and raised again,
\* any other exception is logged and main returns.
MainRaises(exc) ==
  IF exc = "MaxRetriesExceededException" THEN exc ELSE "none"

\* Mutant: the exception is logged and the while loop goes on.
RunEndsWith_Continue(exc) ==
  /\ error' = exc
  /\ main_raised' = MainRaises(exc)
  /\ bpc' = "loop"
  /\ UNCHANGED <<start_index, batches>>

\* An exception leaves the while loop: the connection's uncommitted work is
\* rolled back and the run is over.
RunEndsWith(exc) ==
  /\ error' = exc
  /\ main_raised' = MainRaises(exc)
  /\ bpc' = "stopped"
  /\ UNCHANGED <<start_index, batches>>

\* main, lines 300-304, and process_batch, lines 79-86 and 109-112.
BeginBatch ==
  /\ bpc = "loop"
  /\ start_index < TrackCount
  /\ LET uris == BatchTrackUris(start_index) IN
       /\ batch_has_new_tracks' = HasNewTracks(uris)
       /\ batch_has_new_track_artists' = HasNewTrackArtists(uris)
       /\ IF HasNewTracks(uris) \/ HasNewTrackArtists(uris)
            THEN /\ bpc' = "fetch_batch_tracks"
                 /\ UNCHANGED <<start_index, batches>>
            ELSE BatchDone
  /\ UNCHANGED <<tracks_test, track_artists_test, albums_test, artists_test,
                 run, error, main_raised, resumed, last_call, none_uris>>

\* process_batch, line 88.
FetchBatchTracks ==
  /\ bpc = "fetch_batch_tracks"
  /\ \E failures \in FailureCounts :
       /\ last_call' = WrappedCall("fetch_batch_tracks", failures)
       /\ IF last_call'.result = "MaxRetriesExceededException"
            THEN RunEndsWith("MaxRetriesExceededException")
            ELSE /\ bpc' = IF batch_has_new_track_artists
                             THEN "handle_new_track_artists"
                             ELSE "fetch_audio_features"
                 /\ UNCHANGED <<start_index, batches, error, main_raised>>
  /\ UNCHANGED <<tracks_test, track_artists_test, albums_test, artists_test,
                 run, batch_has_new_tracks, batch_has_new_track_artists,
                 resumed, none_uris>>

Min(S) == CHOOSE x \in S : \A y \in S : x <= y

\* handle_new_track_artists walks batch_tracks["tracks"] in order: track["uri"]
\* on a None entry raises TypeError, and inserting a (track ID, artist ID) pair
\* that is stored violates track_artist_pk.  The first such track ends it.
TrackArtistFailures(uris) ==
  (uris \cap none_uris) \cup {u \in uris : TrackArtistRow(u) \in track_artists_test}

\* process_batch, lines 90-92, and handle_new_track_artists.
HandleNewTrackArtists ==
  /\ bpc = "handle_new_track_artists"
  /\ LET uris == BatchTrackUris(start_index) IN
       IF TrackArtistFailures(uris) = {}
         THEN /\ track_artists_test' =
                   track_artists_test \cup {TrackArtistRow(u) : u \in uris}
              /\ IF batch_has_new_tracks
                   THEN /\ bpc' = "fetch_audio_features"
                        /\ UNCHANGED <<start_index, batches>>
                   ELSE BatchDone
              /\ UNCHANGED <<error, main_raised>>
         ELSE /\ RunEndsWith(IF Min(TrackArtistFailures(uris)) \in none_uris
                               THEN "TypeError" ELSE "IntegrityError")
              /\ UNCHANGED track_artists_test
  /\ UNCHANGED <<tracks_test, albums_test, artists_test, run,
                 batch_has_new_tracks, batch_has_new_track_artists,
                 resumed, last_call, none_uris>>

\* process_batch, line 96.
FetchAudioFeatures ==
  /\ bpc = "fetch_audio_features"
  /\ \E failures \in FailureCounts :
       /\ last_call' = WrappedCall("fetch_audio_features", failures)
       /\ IF last_call'.result = "MaxRetriesExceededException"
            THEN RunEndsWith("MaxRetriesExceededException")
            ELSE /\ bpc' = "handle_new_tracks"
                 /\ UNCHANGED <<start_index, batches, error, main_raised>>
  /\ UNCHANGED <<tracks_test, track_artists_test, albums_test, artists_test,
                 run, batch_has_new_tracks, batch_has_new_track_artists,
                 resumed, none_uris>>

\* handle_new_tracks, lines 214-218: the handler's log message names
\* start_index, which handle_new_tracks does not have, so the handler raises
\* NameError in place of the exception it caught.
ExceptInHandleNewTracks(exc) == "NameError"

\* handle_album and handle_artists fetch what is not stored yet.
AlbumsToFetch(uris) == {AlbumOfUri(u) : u \in uris \ none_uris} \ albums_test

ArtistsToFetch(uris) ==
  {ArtistOfUri(u) : u \in uris \ none_uris}
    \ {r.spotify_artist_id : r \in artists_test}

\* The tracks at which handle_new_tracks makes a lookup: the first track of
\* the batch, in order, of each album (artist) that is not stored.
LookupPoints(uris, func) ==
  {u \in uris \ none_uris :
     IF func = "fetch_album"
       THEN /\ AlbumOfUri(u) \in AlbumsToFetch(uris)
            /\ \A v \in uris \ none_uris : AlbumOfUri(v) = AlbumOfUri(u) => u <= v
       ELSE /\ ArtistOfUri(u) \in ArtistsToFetch(uris)
            /\ \A v \in uris \ none_uris : ArtistOfUri(v) = ArtistOfUri(u) => u <= v}

\* What handle_new_tracks has written on its connection when the lookup func
\* made for track u raises: the track rows up to u, and the albums and artists
\* of the tracks before u (the album of u too when its artist lookup raises).
WrittenBeforeRaise(uris, u, func) ==
  LET before    == {v \in uris \ none_uris : v < u}
      albumDone == IF func = "fetch_artist" THEN before \cup {u} ELSE before
  IN  [tracks_test  |-> tracks_test \cup before \cup {u},
       albums_test  |-> albums_test \cup {AlbumOfUri(v) : v \in albumDone},
       artists_test |-> artists_test
                          \cup {ArtistRow(a) : a \in ArtistsToFetch(before)}]

\* Mutant: every statement is committed as it is executed.
CommittedOnRaise_Autocommit(stored, written) == written

\* main, line 304: an exception leaves the with block, the connection is closed
\* and what it executed since its last commit is rolled back; the stored tables
\* are the committed ones.
CommittedOnRaise(stored, written) == stored

\* process_batch, lines 98-108, and handle_new_tracks: None entries are
\* skipped; either every lookup succeeds and the batch is committed, or a
\* lookup of an album or of an artist exhausts its retries.
HandleNewTracks ==
  /\ bpc = "handle_new_tracks"
  /\ LET uris == BatchTrackUris(start_index) IN
       \E failing \in {"none"}
                      \cup {f \in {"fetch_album"} : AlbumsToFetch(uris) # {}}
                      \cup {f \in {"fetch_artist"} : ArtistsToFetch(uris) # {}} :
         IF failing = "none"
           THEN /\ tracks_test' = tracks_test \cup (uris \ none_uris)
                /\ albums_test' = albums_test \cup AlbumsToFetch(uris)
                /\ artists_test' =
                     artists_test \cup {ArtistRow(a) : a \in ArtistsToFetch(uris)}
                /\ last_call' =
                     IF AlbumsToFetch(uris) \cup ArtistsToFetch(uris) # {}
                       THEN WrappedCall(IF ArtistsToFetch(uris) # {}
                                          THEN "fetch_artist" ELSE "fetch_album", 0)
                       ELSE last_call
                /\ BatchDone
                /\ UNCHANGED <<error, main_raised>>
           ELSE /\ last_call' = WrappedCall(failing, max_retries)
                /\ RunEndsWith(ExceptInHandleNewTracks(last_call'.result))
                /\ \E u \in LookupPoints(uris, failing) :
                     LET stored  == [tracks_test  |-> tracks_test,
                                     albums_test  |-> albums_test,
                                     artists_test |-> artists_test]
                         tables  == CommittedOnRaise(
                                      stored, WrittenBeforeRaise(uris, u, failing))
                     IN  /\ tracks_test' = tables.tracks_test
                         /\ albums_test' = tables.albums_test
                         /\ artists_test' = tables.artists_test
  /\ UNCHANGED <<track_artists_test, run, batch_has_new_tracks,
                 batch_has_new_track_artists, resumed, none_uris>>

\* main, line 300: the loop condition fails and main returns.
FinishRun ==
  /\ bpc = "loop"
  /\ start_index >= TrackCount
  /\ bpc' = "stopped"
  /\ UNCHANGED <<tracks_test, track_artists_test, albums_test, artists_test,
                 start_index, run, error, main_raised, batch_has_new_tracks,
                 batch_has_new_track_artists, batches, resumed, last_call,
                 none_uris>>

(***************************************************************************)
(* Specification                                                           *)
(***************************************************************************)
\* Contents of the relation track_mapping, which no statement of the program
\* writes: empty, every track mapped to itself, or every track mapped to track 1.
StoredTrackMappings ==
  { {},
    {[old_track_uri |-> Uri(i), new_track_uri |-> Uri(i)] : i \in TrackIds},
    {[old_track_uri |-> Uri(i), new_track_uri |-> Uri(1)] : i \in TrackIds} }

Init ==
  /\ tracks = {}
  /\ albums = {}
  /\ artists = {}
  /\ track_artists = {}
  /\ track_mapping_test = {}
  /\ track_mapping \in StoredTrackMappings
  /\ tracks_consolidated_test = {}
  /\ pc = "idle"
  /\ rebuilt = FALSE
  /\ DedupeIdle
  /\ RunIdle
  /\ BatchIdle

Next ==
  \/ ProcessBatch /\ UNCHANGED <<dedupeVars, runVars, batchVars>>
  \/ TrackMappingRebuild /\ UNCHANGED <<dedupeVars, runVars, batchVars>>
  \/ TracksConsolidatedRebuild /\ UNCHANGED <<dedupeVars, runVars, batchVars>>

Spec == Init /\ [][Next]_vars

\* The catalog tables of the rebuilds, left alone while another part of the
\* program is looked at.
CatalogIdle ==
  /\ tracks = {}
  /\ albums = {}
  /\ artists = {}
  /\ track_artists = {}
  /\ track_mapping_test = {}
  /\ track_mapping = {}
  /\ tracks_consolidated_test = {}
  /\ pc = "idle"
  /\ rebuilt = FALSE

\* process_duplicate_artists as db_updates.main calls it.
InitDuplicateArtists ==
  /\ CatalogIdle
  /\ RunIdle
  /\ BatchIdle
  /\ DedupeCalled("called")
  /\ duplicate_artist_names = {}

NextDuplicateArtists ==
  \/ DupeQuery /\ UNCHANGED <<catalogVars, runVars, batchVars>>
  \/ StrayLoggerError /\ UNCHANGED <<catalogVars, runVars, batchVars>>

SpecDuplicateArtists == InitDuplicateArtists /\ [][NextDuplicateArtists]_vars

\* The statements of process_duplicate_artists from line 533 on, taken on
\* their own: entered with duplicate_artist_names as lines 526-530 compute it.
InitRenameLoop ==
  /\ CatalogIdle
  /\ RunIdle
  /\ BatchIdle
  /\ DedupeCalled("select")
  /\ duplicate_artist_names = DupeQueryResult(artists_test)

NextRenameLoop ==
  \/ RenamePlan /\ UNCHANGED <<catalogVars, runVars, batchVars>>
  \/ UpdateRow /\ UNCHANGED <<catalogVars, runVars, batchVars>>
  \/ ReturnFromLoop /\ UNCHANGED <<catalogVars, runVars, batchVars>>
  \/ UpdateRaises /\ UNCHANGED <<catalogVars, runVars, batchVars>>
  \/ CallAgain /\ UNCHANGED <<catalogVars, runVars, batchVars>>

SpecRenameLoop == InitRenameLoop /\ [][NextRenameLoop]_vars

\* Runs of db_updates.main from line 48 on, between loads of the catalog.
InitUpdatesRun ==
  /\ tracks = {}
  /\ albums = {}
  /\ artists = {}
  /\ track_artists = {}
  /\ track_mapping_test = {}
  /\ track_mapping = {[old_track_uri |-> Uri(i), new_track_uri |-> Uri(i)] : i \in TrackIds}
  /\ tracks_consolidated_test = {}
  /\ pc = "idle"
  /\ rebuilt = FALSE
  /\ DedupeIdle
  /\ RunIdle
  /\ BatchIdle

NextUpdatesRun ==
  \/ LoadBetweenRuns /\ UNCHANGED <<dedupeVars, batchVars>>
  \/ ExecTrackMapping /\ UNCHANGED <<dedupeVars, batchVars>>
  \/ ExecTracksConsolidated /\ UNCHANGED <<dedupeVars, batchVars>>
  \/ ExecGenresUpdate /\ UNCHANGED <<dedupeVars, batchVars>>
  \/ CommitRun /\ UNCHANGED <<dedupeVars, batchVars>>
  \/ RunFails /\ UNCHANGED <<dedupeVars, batchVars>>

SpecUpdatesRun == InitUpdatesRun /\ [][NextUpdatesRun]_vars

\* Runs of the batch script against an empty database.
InitBatch ==
  /\ CatalogIdle
  /\ DedupeIdle
  /\ RunIdle
  /\ tracks_test = {}
  /\ track_artists_test = {}
  /\ albums_test = {}
  /\ start_index = 0
  /\ bpc = "stopped"
  /\ run = 0
  /\ error = "none"
  /\ main_raised = "none"
  /\ batch_has_new_tracks = FALSE
  /\ batch_has_new_track_artists = FALSE
  /\ batches = <<>>
  /\ resumed = FALSE
  /\ last_call = NoCall
  /\ none_uris \in NoneUriSets
  /\ RETRY_CONFIG = RepositoryRetryConfig

NextBatch ==
  \/ StartRun /\ UNCHANGED <<catalogVars, dedupeLocals, runVars, RETRY_CONFIG>>
  \/ BeginBatch /\ UNCHANGED <<catalogVars, dedupeLocals, runVars, RETRY_CONFIG>>
  \/ FetchBatchTracks /\ UNCHANGED <<catalogVars, dedupeLocals, runVars, RETRY_CONFIG>>
  \/ HandleNewTrackArtists /\ UNCHANGED <<catalogVars, dedupeLocals, runVars, RETRY_CONFIG>>
  \/ FetchAudioFeatures /\ UNCHANGED <<catalogVars, dedupeLocals, runVars, RETRY_CONFIG>>
  \/ HandleNewTracks /\ UNCHANGED <<catalogVars, dedupeLocals, runVars, RETRY_CONFIG>>
  \/ FinishRun /\ UNCHANGED <<catalogVars, dedupeLocals, runVars, RETRY_CONFIG>>

SpecBatch == InitBatch /\ [][NextBatch]_vars

\* Calls through the retry wrapper under any retry configuration.
MaxRetryConfig == 4

\* Values RETRY_CONFIG may be given: max_retries from 0 up, the delay as set.
RetryConfigs == [max_retries : 0..MaxRetryConfig, delay : {delay}]

\* The functions decorated with retry_operation.
WrappedFunctions ==
  {"fetch_batch_tracks", "fetch_audio_features", "fetch_album", "fetch_artist"}

\* One call of a wrapped function that the catalog fails on its first
\* `failures` invocations.
CallWrapped ==
  /\ \E func \in WrappedFunctions, failures \in 0..(MaxRetryConfig + 1) :
       last_call' = WrappedCall(func, failures)
  /\ UNCHANGED <<tracks_test, track_artists_test, albums_test, artists_test,
                 start_index, bpc, run, error, main_raised,
                 batch_has_new_tracks, batch_has_new_track_artists,
                 batches, resumed, none_uris, RETRY_CONFIG>>

InitRetryWrapper ==
  /\ CatalogIdle
  /\ DedupeIdle
  /\ RunIdle
  /\ tracks_test = {}
  /\ track_artists_test = {}
  /\ albums_test = {}
  /\ start_index = 0
  /\ bpc = "stopped"
  /\ run = 0
  /\ error = "none"
  /\ main_raised = "none"
  /\ batch_has_new_tracks = FALSE
  /\ batch_has_new_track_artists = FALSE
  /\ batches = <<>>
  /\ resumed = FALSE
  /\ last_call = NoCall
  /\ none_uris = {}
  /\ RETRY_CONFIG \in RetryConfigs

NextRetryWrapper ==
  CallWrapped /\ UNCHANGED <<catalogVars, dedupeLocals, runVars>>

SpecRetryWrapper == InitRetryWrapper /\ [][NextRetryWrapper]_vars

(***************************************************************************)
(* Properties of the track-mapping rebuild                                 *)
(***************************************************************************)
\* track_mapping_test holds the output of a rebuild over the current tracks and albums.
MappingFresh == pc = "mapped" \/ rebuilt

HasAlbum(t) == \E a \in albums : a.spotify_album_id = t.spotify_album_id

AlbumOf(t) == CHOOSE a \in albums : a.spotify_album_id = t.spotify_album_id

TrackOfUri(u) == CHOOSE t \in tracks : t.spotify_track_uri = u

\* Same primary artist, same name, same 3000 ms duration bucket.
SameGroup(t, u) ==
  /\ t.spotify_artist_id = u.spotify_artist_id
  /\ t.track_name = u.track_name
  /\ t.duration_ms \div 3000 = u.duration_ms \div 3000

MappingEntriesOf(t) == {m \in track_mapping_test : m.old_track_uri = t.spotify_track_uri}

\* C1: after the mapping rebuild every track with a matching album row is the key
\* of exactly one mapping entry, and no row set the query can return repeats a key.
Thm_C1 ==
  /\ \A rows \in TrackMappingSelect(tracks, albums) : MappingKeyUnique(rows)
  /\ MappingFresh =>
       \A t \in tracks : HasAlbum(t) => Cardinality(MappingEntriesOf(t)) = 1

\* Two album-resolved tracks of one group with different durations, both mapped.
Witness_C1 ==
  /\ MappingFresh
  /\ \E t, u \in tracks :
       /\ t # u /\ HasAlbum(t) /\ HasAlbum(u) /\ SameGroup(t, u)
       /\ t.duration_ms # u.duration_ms
       /\ Cardinality(MappingEntriesOf(t)) = 1
       /\ Cardinality(MappingEntriesOf(u)) = 1

\* C2: after the mapping rebuild, entries whose keys are tracks of one group
\* (artist, name, duration bucket) have the same new_track_uri, and that URI is
\* the URI of a track of the group.
Thm_C2 ==
  MappingFresh =>
    \A m1, m2 \in track_mapping_test :
      LET t1 == TrackOfUri(m1.old_track_uri)
          t2 == TrackOfUri(m2.old_track_uri)
      IN SameGroup(t1, t2) =>
           /\ m1.new_track_uri = m2.new_track_uri
           /\ \E c \in tracks : c.spotify_track_uri = m1.new_track_uri /\ SameGroup(c, t1)

\* Two distinct tracks of one group are keys of entries with one target.
Witness_C2 ==
  /\ MappingFresh
  /\ \E m1, m2 \in track_mapping_test :
       /\ m1.old_track_uri # m2.old_track_uri
       /\ SameGroup(TrackOfUri(m1.old_track_uri), TrackOfUri(m2.old_track_uri))
       /\ m1.new_track_uri = m2.new_track_uri

ClaimTypeRank(album_type) ==
  IF album_type = "album" THEN 1
  ELSE IF album_type = "single" THEN 2
  ELSE IF album_type = "compilation" THEN 3
  ELSE 4

\* u comes strictly before c: album-type rank, then higher popularity, then
\* earlier release date, then smaller track id.
ClaimBefore(u, c) ==
  LET ru == ClaimTypeRank(AlbumOf(u).album_type)
      rc == ClaimTypeRank(AlbumOf(c).album_type)
      du == AlbumOf(u).release_date
      dc == AlbumOf(c).release_date
  IN \/ ru < rc
     \/ ru = rc /\ u.track_popularity > c.track_popularity
     \/ ru = rc /\ u.track_popularity = c.track_popularity /\ du < dc
     \/ ru = rc /\ u.track_popularity = c.track_popularity /\ du = dc
          /\ u.spotify_track_id < c.spotify_track_id

\* C3: the canonical track of a group is its least member under (album-type rank,
\* popularity descending, release date, track id), the order being taken over the
\* members that have an album row (rank and release date come from that row); an
\* album release beats a single of the group whatever their popularity and date.
Thm_C3 ==
  MappingFresh =>
    \A m \in track_mapping_test :
      LET c == TrackOfUri(m.new_track_uri) IN
        /\ HasAlbum(c)
        /\ \A u \in tracks : SameGroup(u, c) /\ HasAlbum(u) => ~ ClaimBefore(u, c)
        /\ \A u \in tracks :
             SameGroup(u, c) /\ HasAlbum(u) /\ AlbumOf(u).album_type = "album"
               => AlbumOf(c).album_type # "single"

\* An album release is canonical over a more popular single of its group.
Witness_C3 ==
  /\ MappingFresh
  /\ \E m \in track_mapping_test :
       LET c == TrackOfUri(m.new_track_uri)
           u == TrackOfUri(m.old_track_uri)
       IN /\ u # c /\ HasAlbum(u)
          /\ AlbumOf(c).album_type = "album"
          /\ AlbumOf(u).album_type = "single"
          /\ u.track_popularity > c.track_popularity

Thm_C5 ==
  MappingFresh =>
    \A m \in track_mapping_test :
      /\ [old_track_uri |-> m.new_track_uri, new_track_uri |-> m.new_track_uri]
           \in track_mapping_test
      /\ \A n \in track_mapping_test :
           n.old_track_uri = m.new_track_uri => n.new_track_uri = m.new_track_uri

\* A superseded track: an entry whose key differs from its target.
Witness_C5 ==
  /\ MappingFresh
  /\ \E m \in track_mapping_test : m.old_track_uri # m.new_track_uri

Thm_C7 ==
  [][(rebuilt /\ pc = "idle" /\ pc' = "mapped") =>
       track_mapping_test' = track_mapping_test]_vars

\* A second rebuild has run over a group whose two album-resolved members tie on
\* album type, popularity and release date.
Witness_C7 ==
  /\ rebuilt /\ pc = "mapped"
  /\ \E t, u \in tracks :
       /\ t # u /\ SameGroup(t, u) /\ HasAlbum(t) /\ HasAlbum(u)
       /\ AlbumOf(t).album_type = AlbumOf(u).album_type
       /\ AlbumOf(t).release_date = AlbumOf(u).release_date
       /\ t.track_popularity = u.track_popularity
       /\ MappingEntriesOf(t) # {} /\ MappingEntriesOf(u) # {}

(***************************************************************************)
(* Properties of the consolidated-track rebuild                            *)
(***************************************************************************)
\* C8 as stated: a mapping rebuild followed by a consolidated rebuild, run again
\* over unchanged catalog tables, leaves both output tables as the first run left
\* them; and each statement writes only what its SELECT returns over the current
\* tables, whatever the output table held before.
Claim_C8 ==
  [][/\ (rebuilt /\ pc = "idle" /\ pc' = "mapped") =>
          track_mapping_test' = track_mapping_test
     /\ (rebuilt /\ pc = "mapped" /\ pc' = "idle") =>
          tracks_consolidated_test' = tracks_consolidated_test
     /\ (pc = "idle" /\ pc' = "mapped") =>
          track_mapping_test' \in TrackMappingSelect(tracks, albums)
     /\ (pc = "mapped" /\ pc' = "idle") =>
          tracks_consolidated_test' \in
            TracksConsolidatedSelect(tracks, track_mapping, track_artists, artists)
    ]_vars

\* C9 as stated: after the consolidated rebuild, Consolidated Track holds exactly
\* one row for every track that is the target of an entry of the Track Mapping
\* the mapping rebuild wrote, and no row for any other track.
Claim_C9 ==
  rebuilt =>
    /\ \A t \in tracks :
         (\E m \in track_mapping_test : m.new_track_uri = t.spotify_track_uri)
           => Cardinality({r \in tracks_consolidated_test :
                             r.spotify_track_id = t.spotify_track_id}) = 1
    /\ \A r \in tracks_consolidated_test :
         \E m \in track_mapping_test : m.new_track_uri = r.spotify_track_uri

ArtistNameById(id) ==
  (CHOOSE a \in artists : a.spotify_artist_id = id).artist_name

DedupeEnded == dpc \in {"returned", "raised"}

\* The artists that carried display name n when the function was called.
SharingArtists(n) == {r \in artists_at_call : r.artist_name = n}

NameOf(tbl, id) == (CHOOSE r \in tbl : r.spotify_artist_id = id).artist_name

\* C11: once process_duplicate_artists has run, for every display name that
\* k >= 2 artists shared, the artist with the most followers keeps the bare
\* name and the j-th artist in descending-follower order (2 <= j <= k) is
\* named "{name} (j)", each suffix (2)..(k) being used exactly once.
Claim_C11 ==
  DedupeEnded =>
    \A n \in DupeQueryResult(artists_at_call) :
      \E df \in SortedByFollowers(SharingArtists(n)) :
        /\ NameOf(committed.artists_test, df[1].spotify_artist_id) = n
        /\ \A j \in 2..Len(df) :
             NameOf(committed.artists_test, df[j].spotify_artist_id)
               = SuffixedName(n, j)

\* C12: once process_duplicate_artists has run on any Artist table, no two
\* distinct artist IDs carry the same display name.
Claim_C12 ==
  DedupeEnded =>
    \A r, s \in committed.artists_test :
      r.spotify_artist_id # s.spotify_artist_id => r.artist_name # s.artist_name

\* C13: once process_duplicate_artists has run, every listening-history row
\* whose artist ID is that of an artist that shared its display name carries
\* the display name the Artist table holds for that ID.
Claim_C13 ==
  DedupeEnded =>
    \A m \in committed.music_listening_history_test :
      \A n \in DupeQueryResult(artists_at_call) :
        m.spotify_artist_id \in {r.spotify_artist_id : r \in SharingArtists(n)}
          => m.artist_name = NameOf(committed.artists_test, m.spotify_artist_id)

\* Row i of the renaming plan is what the committed Artist table holds.
PlanRowCommitted(i) ==
  NameOf(committed.artists_test, dupe_artist_df[i].spotify_artist_id)
    = dupe_artist_df[i].artist_name

Thm_C15 ==
  /\ upc \in {"line50", "line52", "line54", "failed"} =>
       committed_tables = tables_before_run
  /\ upc = "failed" =>
       RebuiltTables(track_mapping_test, tracks_consolidated_test) = tables_before_run

\* A run failed after an earlier run had committed a non-empty mapping and a
\* track had been loaded since, so the failed run had rebuilt other content.
Witness_C15 ==
  /\ upc = "failed"
  /\ committed_tables.track_mapping_test # {}
  /\ committed_tables.tracks_consolidated_test # {}
  /\ Cardinality(tracks) > Cardinality(committed_tables.tracks_consolidated_test)

(***************************************************************************)
(* Properties of the retry wrapper and of the batch script                 *)
(***************************************************************************)
\* Number of invocations of the wrapped function in a call's events.
Invocations(events) ==
  Cardinality({i \in DOMAIN events : events[i].kind = "call"})

Claim_C17 ==
  last_call.result = "MaxRetriesExceededException" =>
    /\ bpc = "stopped"
    /\ main_raised = "MaxRetriesExceededException"

\* The track of URI u and its track-artist association are stored.
TrackStored(u) ==
  /\ u \in tracks_test
  /\ TrackArtistRow(u) \in track_artists_test

\* The batches process_batch has been through in this run with no catalog call
\* exhausting its retries: those it returned from, and the one it left with
\* another exception.
BatchesGoneThrough ==
  {batches[i] : i \in DOMAIN batches}
    \cup {b \in {start_index} : /\ bpc = "stopped"
                                /\ error \notin {"none", "MaxRetriesExceededException"}
                                /\ last_call.result # "MaxRetriesExceededException"}

\* C18: when process_batch has been through a batch in which the catalog had
\* no data for a track, every other track of the batch is stored, with its
\* track-artist association and with its track row.
Claim_C18 ==
  \A b \in BatchesGoneThrough :
    BatchTrackUris(b) \cap none_uris # {} =>
      \A v \in BatchTrackUris(b) \ none_uris : TrackStored(v)

\* Some tracks of the batch have a stored track-artist association and others
\* have none.
MixedBatch(uris) ==
  /\ \E u \in uris : TrackArtistRow(u) \in track_artists_test
  /\ \E u \in uris : TrackArtistRow(u) \notin track_artists_test

\* C19: process_batch inserts only the associations that are missing: a run
\* never stops with an error at a batch in which some tracks have a stored
\* association and others have none (no catalog call having exhausted its
\* retries), and every batch process_batch has returned from has the
\* association of each of its tracks stored.
Claim_C19 ==
  /\ (/\ bpc = "stopped"
      /\ last_call.result # "MaxRetriesExceededException"
      /\ MixedBatch(BatchTrackUris(start_index))) => error = "none"
  /\ \A i \in DOMAIN batches :
       \A u \in BatchTrackUris(batches[i]) \ none_uris :
         TrackArtistRow(u) \in track_artists_test

\* C20: the start index moves on only past batches whose tracks are all
\* stored; and a run restarted at the index the failed run before it stopped
\* at, in which no catalog call exhausts its retries, ends without error
\* having handled every index from there on exactly once, in batches of at
\* most batch_size.
Claim_C20 ==
  /\ \A k \in DOMAIN batches :
       \A u \in BatchTrackUris(batches[k]) \ none_uris : TrackStored(u)
  /\ (/\ bpc = "stopped"
      /\ resumed
      /\ last_call.result # "MaxRetriesExceededException") =>
       /\ error = "none"
       /\ start_index >= TrackCount
       /\ Len(batches) > 0
       /\ \A k \in DOMAIN batches :
            Cardinality(BatchTrackUris(batches[k])) <= batch_size
       /\ \A i \in batches[1]..(TrackCount - 1) :
            Cardinality({k \in DOMAIN batches : i \in BatchTrackUris(batches[k])}) = 1

\* The script is about to issue a catalog call.
AtCatalogCall ==
  bpc \in {"fetch_batch_tracks", "fetch_audio_features", "handle_new_tracks"}

\* C21: within a run, a catalog call is issued only when the call before it
\* was followed by a wait: inside one wrapped call every invocation but the
\* last is followed by the retry delay (it failed) or by the post-call sleep
\* (it succeeded), and the script goes on to its next call only after a call
\* that ended with the post-call sleep.  A batch's calls are issued only when
\* every batch before it in the run has been completed.
Thm_C21 ==
  /\ \A i \in DOMAIN last_call.events :
       last_call.events[i] = ApiCall =>
         IF Invocations(SubSeq(last_call.events, 1, i)) <= last_call.failures
           THEN i < Len(last_call.events) => last_call.events[i + 1] = Wait(delay)
           ELSE /\ i < Len(last_call.events)
                /\ last_call.events[i + 1] = Wait(sleep_seconds)
  /\ AtCatalogCall =>
       /\ last_call.events # <<>> =>
            last_call.events[Len(last_call.events)] = Wait(sleep_seconds)
       /\ \A k \in DOMAIN batches :
            batches[k] = start_index - (Len(batches) - k + 1) * batch_size

\* The second batch of a run is about to look up its audio features, after a
\* batch track lookup that succeeded at the third attempt.
Witness_C21 ==
  /\ bpc = "fetch_audio_features"
  /\ Len(batches) >= 1
  /\ last_call.func = "fetch_batch_tracks"
  /\ last_call.failures = max_retries - 1
  /\ last_call.result = "returned"

\* C22: handle_new_tracks commits its track, audio-feature, album and artist
\* writes only when every track of the batch has been handled: a step of
\* handle_new_tracks that ends the run with an error leaves the stored track,
\* album and artist tables as they were, and a step that changes one of them
\* stores every track of the batch that the catalog has data for, with its
\* album and its artist.
Thm_C22 ==
  [][bpc = "handle_new_tracks" =>
       LET uris == BatchTrackUris(start_index) \ none_uris IN
         /\ bpc' = "stopped" =>
              /\ tracks_test' = tracks_test
              /\ albums_test' = albums_test
              /\ artists_test' = artists_test
         /\ <<tracks_test, albums_test, artists_test>>'
              # <<tracks_test, albums_test, artists_test>> =>
              /\ bpc' = "loop"
              /\ \A u \in uris :
                   /\ u \in tracks_test'
                   /\ AlbumOfUri(u) \in albums_test'
                   /\ ArtistRow(ArtistOfUri(u)) \in artists_test']_vars

\* handle_new_tracks has failed at an artist lookup, after it had inserted
\* tracks and an album of the batch on its connection.
Witness_C22 ==
  /\ bpc = "stopped"
  /\ error = "NameError"
  /\ last_call.func = "fetch_artist"
  /\ last_call.result = "MaxRetriesExceededException"
  /\ BatchTrackUris(start_index) \cap tracks_test = {}
  /\ \E u \in BatchTrackUris(start_index) : AlbumOfUri(u) \notin albums_test

(***************************************************************************)
(* Further properties of the rebuilds                                      *)
(***************************************************************************)
\* Entries with distinct keys and one target are keyed by tracks of the same
\* name and primary artist ID whose durations differ by less than 3000 ms.
CombinedAlike(rows) ==
  \A m1, m2 \in rows :
    (m1.old_track_uri # m2.old_track_uri /\ m1.new_track_uri = m2.new_track_uri) =>
      LET t1 == TrackOfUri(m1.old_track_uri)
          t2 == TrackOfUri(m2.old_track_uri)
      IN /\ t1.track_name = t2.track_name
         /\ t1.spotify_artist_id = t2.spotify_artist_id
         /\ Abs(t1.duration_ms - t2.duration_ms) < 3000

\* C23: two distinct track URIs that the mapping sends to the same canonical
\* URI belong to tracks of the same name and the same primary artist ID whose
\* durations differ by less than 3000 ms.
Thm_C23 == MappingFresh => CombinedAlike(track_mapping_test)

\* Tracks of 3000 ms and 5999 ms, 2999 ms apart, share a canonical track.
Witness_C23 ==
  /\ MappingFresh
  /\ \E m1, m2 \in track_mapping_test :
       /\ m1.old_track_uri # m2.old_track_uri
       /\ m1.new_track_uri = m2.new_track_uri
       /\ TrackOfUri(m1.old_track_uri).duration_ms = 3000
       /\ TrackOfUri(m2.old_track_uri).duration_ms = 5999

\* The tracks a consolidated rebuild over the mapping tm has rows for: the
\* targets of tm that have a stored track-artist association.
ConsolidatedTracksOf(tm) ==
  {t.spotify_track_uri :
     t \in {t \in tracks :
              /\ \E e \in tm : e.new_track_uri = t.spotify_track_uri
              /\ JoinTrackArtists(t.spotify_track_id, tracks, track_artists, artists) # {}}}

\* C24 as stated: at the end of a run of db_updates the tracks in Consolidated
\* Track are those determined by the Track Mapping the mapping rebuild of that
\* run wrote, whatever mapping is stored elsewhere.
Claim_C24 ==
  rebuilt =>
    {r.spotify_track_uri : r \in tracks_consolidated_test}
      = ConsolidatedTracksOf(track_mapping_test)

\* The track-artist associations stored for track id tid.
AssociationsOf(tid) == {ta \in track_artists : ta.spotify_track_id = tid}

Thm_C26 ==
  MappingFresh =>
    \A m \in track_mapping_test : HasAlbum(TrackOfUri(m.new_track_uri))

\* Track 1 has no Album row, the smaller track ID and the higher popularity;
\* it is mapped to track 2 of its group, which has an Album row.
Witness_C26 ==
  /\ MappingFresh
  /\ \E t1, t2 \in tracks :
       /\ t1.spotify_track_id = 1 /\ t2.spotify_track_id = 2
       /\ ~ HasAlbum(t1) /\ HasAlbum(t2)
       /\ t1.track_popularity > t2.track_popularity
       /\ [old_track_uri |-> t1.spotify_track_uri,
           new_track_uri |-> t2.spotify_track_uri] \in track_mapping_test

\* C27 as stated: under every retry configuration, max_retries = 0 included, a
\* call through the wrapper ends in one of two ways: it returns the result of
\* an invocation that succeeded, which is the last invocation it makes, or it
\* raises MaxRetriesExceededException.
Claim_C27 ==
  last_call.func # "none" =>
    \/ /\ last_call.result = "returned"
       /\ Invocations(last_call.events) = last_call.failures + 1
       /\ Len(last_call.events) >= 2
       /\ SubSeq(last_call.events, Len(last_call.events) - 1, Len(last_call.events))
            = <<ApiCall, Wait(sleep_seconds)>>
    \/ last_call.result = "MaxRetriesExceededException"

(***************************************************************************)
(* Further properties of process_duplicate_artists                         *)
(***************************************************************************)
\* C28 as stated: called by db_updates.main on well-formed tables, with or
\* without shared display names, process_duplicate_artists does not end by
\* raising: it gets past its duplicate-name query to the rename step and
\* returns, so that main goes on to the rebuilds.
Claim_C28 ==
  /\ dpc # "raised"
  /\ DedupeEnded => dpc = "returned"

\* The IDs of the artists that shared a display name when the function was
\* called.
SharingIds ==
  {r.spotify_artist_id :
     r \in {r \in artists_at_call : r.artist_name \in DupeQueryResult(artists_at_call)}}

\* Every row of tbl whose artist ID is not a sharing one is a row of after.
RowsKept(tbl, after) ==
  \A r \in tbl : r.spotify_artist_id \notin SharingIds => r \in after

\* C29: no step of process_duplicate_artists changes the Artist row of an
\* artist whose display name no other artist ID carries, nor a listening-history
\* row whose artist ID is not that of an artist sharing a name (the rows with
\* no artist ID included), in the tables as the connection sees them and as
\* committed.
Thm_C29 ==
  [][/\ RowsKept(artists_test, artists_test')
     /\ RowsKept(music_listening_history_test, music_listening_history_test')
     /\ RowsKept(committed.artists_test, committed'.artists_test)
     /\ RowsKept(committed.music_listening_history_test,
                 committed'.music_listening_history_test)]_vars

\* The function has returned having renamed an artist named "Bob"; the
\* artist named "Al" and the stream with no artist ID, which reads "Bob", are
\* as they were.
Witness_C29 ==
  /\ dpc = "returned"
  /\ \E r \in committed.artists_test : r.artist_name = "Bob (2)" /\ r \notin artists_at_call
  /\ \E r \in artists_at_call :
       /\ r.artist_name = "Al"
       /\ r.spotify_artist_id \notin SharingIds
       /\ r \in committed.artists_test
  /\ [music_stream_id |-> 0, spotify_artist_id |-> NULL, artist_name |-> "Bob"]
       \in committed.music_listening_history_test

====
